---- MODULE Spec2Model ----
(***************************************************************************)
(* The board state machine of lucky_thirteen.py: the grid of number        *)
(* stacks, the player's cursor, the current selection, the level that is   *)
(* current (intro, main, win) and the win level's pending timer.           *)
(*                                                                         *)
(* The program's numbers are scaled down so that the state space is        *)
(* finite and small: max_number is 3 instead of 13 and the grid side is 2  *)
(* instead of 5.  game.board_depth and game.board_size are attributes of   *)
(* the game object: the constructor sets board_depth to max_number (Init); *)
(* the gameplay specification Spec starts from a configuration with        *)
(* shallower stacks (InitPlay).                                            *)
(* Music, the voice pack, the music volume, the settings file and the help *)
(* menu are not modelled.                                                  *)
(***************************************************************************)
EXTENDS Integers, Sequences, FiniteSets, TLC

\* max_number: the largest number randint draws, and the sum to reach.
max_number == 3

\* The side of the square grid Spec configures (game.board_size).
PlaySize == 2

\* The stack depth Spec configures (game.board_depth) in place of max_number.
PlayDepth == 1

\* Bound on the number of values stored on the whole board: a lose or a seed
\* that would store more is not taken (a stack grows without limit in the
\* program).
MaxTotal == 4

VARIABLES
    numbers,      \* Board.numbers: coordinates -> stack (top = last element)
    selected,     \* Board.selected: list of coordinates
    x,            \* Board.x
    y,            \* Board.y
    board_depth,  \* Game.board_depth
    board_size,   \* Game.board_size
    exception,    \* "none", or the exception that ended the program
    level,        \* game.level: "intro", "main" or "win"
    scheduled,    \* number of pending schedule_once(win_level.goto_intro) calls
    sound         \* the file last given to play_sound (sound_generator.buffer)

vars == <<numbers, selected, x, y, board_depth, board_size, exception, level,
          scheduled, sound>>

----------------------------------------------------------------------------
(* Helpers *)

\* range(game.board_size) x range(game.board_size)
Coords == (0 .. board_size - 1) \X (0 .. board_size - 1)

Range(s) == {s[i] : i \in DOMAIN s}

\* list[-1]
Top(s) == s[Len(s)]

\* list.pop(): the list without its last element
Pop(s) == SubSeq(s, 1, Len(s) - 1)

\* list[-1] = v
SetTop(s, v) == [s EXCEPT ![Len(s)] = v]

\* randint(1, max_number): the values it can return
randint == 1 .. max_number

\* The lists of n draws of randint.
RECURSIVE Draws(_)
Draws(n) == IF n = 0 THEN {<<>>}
            ELSE {Append(s, v) : s \in Draws(n - 1), v \in randint}

\* Number of values stored on the board.
RECURSIVE TotalOver(_, _)
TotalOver(nums, cs) ==
    IF cs = {} THEN 0
    ELSE LET c == CHOOSE d \in cs : TRUE
         IN Len(nums[c]) + TotalOver(nums, cs \ {c})

Total(nums) == TotalOver(nums, DOMAIN nums)

\* Board.coords
coords == <<x, y>>

\* Board.empty_tile
empty_tile == numbers[coords] = <<>>

\* f'{n}.wav'
wav(n) == ToString(n) \o ".wav"

\* Game.play_sound(filename): the file becomes the sound generator's buffer.
play_sound(filename) == sound' = filename

\* The path Game.speak(string) hands to play_sound (the voice pack's name
\* is left out of the path).
voice(string) == "voices/" \o string

\* Game.speak
speak(string) == play_sound(voice(string))

\* Game.play_wall
play_wall == play_sound("wall.wav")

\* The file Game.show_selection plays for cursor c, selection sel, board nums.
selection_sound(nums, sel, c) ==
    IF c \in Range(sel) THEN "select.wav"
    ELSE IF nums[c] = <<>> THEN voice("wild.wav")
    ELSE voice(wav(Top(nums[c])))

\* Game.show_selection, called when the board is nums, the selection sel and
\* the cursor c.
show_selection(nums, sel, c) == play_sound(selection_sound(nums, sel, c))

----------------------------------------------------------------------------
(* Levels *)

\* IntroLevel.on_push
IntroLevel_on_push == speak("intro.wav")

\* Mutant of MainLevel_on_push: one draw too few per stack.
MainLevel_on_push_short ==
    \E fresh \in [Coords -> Draws(board_depth - 1)] :
        /\ numbers' = [c \in (DOMAIN numbers) \cup Coords |->
                          IF c \in Coords THEN fresh[c] ELSE numbers[c]]
        /\ IF coords \in Range(selected) \cup DOMAIN numbers'
           THEN show_selection(numbers', selected, coords)
                /\ UNCHANGED exception
           ELSE exception' = "KeyError" /\ UNCHANGED sound

\* MainLevel.on_push: every coordinate of the grid gets a fresh stack of
\* board_depth draws; x, y and selected are not assigned. Its last call,
\* game.show_selection(), reads numbers[coords] in Board.empty_tile unless the
\* cursor is selected: a KeyError when the grid has no such coordinate, which
\* nothing catches.
MainLevel_on_push ==
    \E fresh \in [Coords -> Draws(board_depth)] :
        /\ numbers' = [c \in (DOMAIN numbers) \cup Coords |->
                          IF c \in Coords THEN fresh[c] ELSE numbers[c]]
        /\ IF coords \in Range(selected) \cup DOMAIN numbers'
           THEN show_selection(numbers', selected, coords)
                /\ UNCHANGED exception
           ELSE exception' = "KeyError" /\ UNCHANGED sound

\* WinLevel.on_push
WinLevel_on_push ==
    /\ play_sound("won.wav")
    /\ scheduled' = scheduled + 1

\* skip_intro: game.replace_level(main_level)
skip_intro ==
    /\ level = "intro"
    /\ level' = "main"
    /\ MainLevel_on_push
    /\ UNCHANGED <<selected, x, y, board_depth, board_size, scheduled>>

\* Mutant of goto_intro: the timer goes straight back to the main level.
goto_intro_to_main ==
    /\ scheduled > 0
    /\ scheduled' = scheduled - 1
    /\ IF level = "win"
       THEN level' = "main" /\ show_selection(numbers, selected, coords)
       ELSE UNCHANGED <<level, sound>>
    /\ UNCHANGED <<numbers, selected, x, y, board_depth, board_size,
                   exception>>

\* WinLevel.goto_intro, run by the clock once per pending schedule_once
goto_intro ==
    /\ scheduled > 0
    /\ scheduled' = scheduled - 1
    /\ IF level = "win"
       THEN level' = "intro" /\ IntroLevel_on_push
       ELSE UNCHANGED <<level, sound>>
    /\ UNCHANGED <<numbers, selected, x, y, board_depth, board_size,
                   exception>>

\* Mutant of skip_win: the pending goto_intro is not unscheduled.
skip_win_uncancelled ==
    /\ level = "win"
    /\ UNCHANGED scheduled
    /\ level' = "intro"
    /\ IntroLevel_on_push
    /\ UNCHANGED <<numbers, selected, x, y, board_depth, board_size,
                   exception>>

\* skip_win
skip_win ==
    /\ level = "win"
    /\ scheduled' = 0
    /\ level' = "intro"
    /\ IntroLevel_on_push
    /\ UNCHANGED <<numbers, selected, x, y, board_depth, board_size,
                   exception>>

----------------------------------------------------------------------------
(* Navigation *)

\* Mutant of left_fn: the wall is taken to begin one column early.
left_fn_early_wall ==
    /\ IF x <= 1
       THEN play_wall /\ UNCHANGED x
       ELSE x' = x - 1 /\ show_selection(numbers, selected, <<x - 1, y>>)
    /\ UNCHANGED <<numbers, selected, y, board_depth, board_size, exception,
                   level, scheduled>>

\* body of left()
left_fn ==
    /\ IF x = 0
       THEN play_wall /\ UNCHANGED x
       ELSE x' = x - 1 /\ show_selection(numbers, selected, <<x - 1, y>>)
    /\ UNCHANGED <<numbers, selected, y, board_depth, board_size, exception,
                   level, scheduled>>

\* Mutant of right_fn: the wall check is missing.
right_fn_unchecked ==
    /\ x' = x + 1
    /\ show_selection(numbers, selected, <<x, y>>)
    /\ UNCHANGED <<numbers, selected, y, board_depth, board_size, exception,
                   level, scheduled>>

\* body of right()
right_fn ==
    /\ IF x = board_size - 1
       THEN play_wall /\ UNCHANGED x
       ELSE x' = x + 1 /\ show_selection(numbers, selected, <<x + 1, y>>)
    /\ UNCHANGED <<numbers, selected, y, board_depth, board_size, exception,
                   level, scheduled>>

\* body of forward()
forward_fn ==
    /\ IF y = board_size - 1
       THEN play_wall /\ UNCHANGED y
       ELSE y' = y + 1 /\ show_selection(numbers, selected, <<x, y + 1>>)
    /\ UNCHANGED <<numbers, selected, x, board_depth, board_size, exception,
                   level, scheduled>>

\* body of backwards()
backwards_fn ==
    /\ IF y = 0
       THEN play_wall /\ UNCHANGED y
       ELSE y' = y - 1 /\ show_selection(numbers, selected, <<x, y - 1>>)
    /\ UNCHANGED <<numbers, selected, x, board_depth, board_size, exception,
                   level, scheduled>>

\* The main level's actions run only while the program runs and the main
\* level is current.
main_level == exception = "none" /\ level = "main"

left == main_level /\ left_fn

right == main_level /\ right_fn

forward == main_level /\ forward_fn

backwards == main_level /\ backwards_fn

\* The (dx, dy) on_mouse_motion is called with: one for each branch of its
\* if-chain, and one that reaches the final else without moving up.
MouseMotions == {<<-1, 0>>, <<1, 0>>, <<0, -1>>, <<0, 1>>, <<0, 0>>}

\* MainLevel.on_mouse_motion(x, y, dx, dy); whether mouse_interval has passed
\* since last_mouse is a free choice (the first disjunct is the early return).
on_mouse_motion ==
    /\ main_level
    /\ \/ UNCHANGED vars
       \/ \E m \in MouseMotions :
             LET dx == m[1]
                 dy == m[2]
             IN IF dx = -1 THEN left_fn
                ELSE IF dx = 1 THEN right_fn
                ELSE IF dy = -1 THEN backwards_fn
                ELSE forward_fn

----------------------------------------------------------------------------
(* Selection *)

\* value, as the loop of Game.check_selection adds it up over sel
RECURSIVE selection_value(_, _)
selection_value(nums, sel) ==
    IF sel = <<>> THEN 0
    ELSE Top(nums[Head(sel)]) + selection_value(nums, Tail(sel))

\* Mutant of pop_each: only the first selected tile is popped.
pop_each_first(nums, sel) ==
    IF sel = <<>> THEN nums
    ELSE [nums EXCEPT ![Head(sel)] = Pop(@)]

\* The loop of Game.win: one pop per entry of sel.
RECURSIVE pop_each(_, _)
pop_each(nums, sel) ==
    IF sel = <<>> THEN nums
    ELSE pop_each([nums EXCEPT ![Head(sel)] = Pop(@)], Tail(sel))

\* Mutant of append_each: the draw replaces the top instead of covering it.
RECURSIVE append_each_overwrite(_, _, _)
append_each_overwrite(nums, sel, r) ==
    IF sel = <<>> THEN nums
    ELSE append_each_overwrite([nums EXCEPT ![Head(sel)] = SetTop(@, Head(r))],
                               Tail(sel), Tail(r))

\* The loop of Game.lose: one append per entry of sel, of the draws r.
RECURSIVE append_each(_, _, _)
append_each(nums, sel, r) ==
    IF sel = <<>> THEN nums
    ELSE append_each([nums EXCEPT ![Head(sel)] = Append(@, Head(r))],
                     Tail(sel), Tail(r))

\* Mutant of any_numbers: all() in place of any().
all_numbers(nums) == \A c \in DOMAIN nums : nums[c] # <<>>

\* any(self.board.numbers.values())
any_numbers(nums) == \E c \in DOMAIN nums : nums[c] # <<>>

\* Mutant of win: the selection is not cleared.
win_keeps_selection(sel) ==
    LET popped == pop_each(numbers, sel) IN
    /\ numbers' = popped
    /\ selected' = sel
    /\ IF any_numbers(popped)
       THEN play_sound("win.wav") /\ UNCHANGED <<level, scheduled>>
       ELSE level' = "win" /\ WinLevel_on_push
    /\ UNCHANGED <<x, y, board_depth, board_size, exception>>

\* Game.win, with board.selected = sel when it is called
win(sel) ==
    LET popped == pop_each(numbers, sel) IN
    /\ numbers' = popped
    /\ selected' = <<>>
    /\ IF any_numbers(popped)
       THEN play_sound("win.wav") /\ UNCHANGED <<level, scheduled>>
       ELSE level' = "win" /\ WinLevel_on_push
    /\ UNCHANGED <<x, y, board_depth, board_size, exception>>

\* Game.lose, with board.selected = sel when it is called
lose(sel) ==
    /\ Total(numbers) + Len(sel) <= MaxTotal
    /\ play_sound("lose.wav")
    /\ \E r \in Draws(Len(sel)) : numbers' = append_each(numbers, sel, r)
    /\ selected' = <<>>
    /\ UNCHANGED <<x, y, board_depth, board_size, exception, level, scheduled>>

\* Mutant of check_selection: >= in place of ==, so an overshoot wins.
check_selection_ge(sel) ==
    LET value == selection_value(numbers, sel) IN
    IF value >= max_number THEN win(sel)
    ELSE /\ play_sound("select.wav")
         /\ selected' = sel
         /\ UNCHANGED <<numbers, x, y, board_depth, board_size, exception,
                        level, scheduled>>

\* Game.check_selection, with board.selected = sel when it is called
check_selection(sel) ==
    LET value == selection_value(numbers, sel) IN
    IF value = max_number THEN win(sel)
    ELSE IF value > max_number THEN lose(sel)
    ELSE /\ play_sound("select.wav")
         /\ selected' = sel
         /\ UNCHANGED <<numbers, x, y, board_depth, board_size, exception,
                        level, scheduled>>

\* Mutant of reroll: the rerolled tile stays selected.
reroll_keeps_selection ==
    /\ \E v \in randint :
          numbers' = [numbers EXCEPT ![selected[1]] = SetTop(@, v)]
    /\ play_sound("randomise.wav")
    /\ UNCHANGED selected
    /\ UNCHANGED <<x, y, board_depth, board_size, exception, level, scheduled>>

\* Mutant of reroll: the draw is appended instead of replacing the top.
reroll_push ==
    /\ \E v \in randint :
          numbers' = [numbers EXCEPT ![selected[1]] = Append(@, v)]
    /\ play_sound("randomise.wav")
    /\ selected' = <<>>
    /\ UNCHANGED <<x, y, board_depth, board_size, exception, level, scheduled>>

\* The reroll branch of select_tile (one tile selected, cursor on an empty one)
reroll ==
    /\ \E v \in randint :
          numbers' = [numbers EXCEPT ![selected[1]] = SetTop(@, v)]
    /\ play_sound("randomise.wav")
    /\ selected' = <<>>
    /\ UNCHANGED <<x, y, board_depth, board_size, exception, level, scheduled>>

\* Mutant of seed: the seeded tile is selected as well.
seed_selects ==
    /\ Total(numbers) + 1 <= MaxTotal
    /\ \E v \in randint :
          /\ numbers' = [numbers EXCEPT ![coords] = Append(@, v)]
          /\ show_selection(numbers', selected, coords)
    /\ selected' = <<coords>>
    /\ UNCHANGED <<x, y, board_depth, board_size, exception, level, scheduled>>

\* The seed branch of select_tile (nothing selected, cursor on an empty tile)
seed ==
    /\ Total(numbers) + 1 <= MaxTotal
    /\ \E v \in randint :
          /\ numbers' = [numbers EXCEPT ![coords] = Append(@, v)]
          /\ show_selection(numbers', selected, coords)
    /\ selected' = <<>>
    /\ UNCHANGED <<x, y, board_depth, board_size, exception, level, scheduled>>

\* Mutant of select_tile: the test for an already selected tile is missing.
select_tile_reselect ==
    /\ main_level
    /\ IF empty_tile
       THEN IF Len(selected) >= 2 THEN win(selected)
            ELSE IF Len(selected) = 1 THEN reroll
            ELSE seed
       ELSE check_selection(Append(selected, coords))

\* Mutant of select_tile: with two or more tiles selected, an empty tile has
\* the selection evaluated instead of won.
select_tile_evaluates ==
    /\ main_level
    /\ IF coords \in Range(selected)
       THEN play_sound("fail.wav")
            /\ UNCHANGED <<numbers, selected, x, y, board_depth, board_size,
                           exception, level, scheduled>>
       ELSE IF empty_tile
       THEN IF Len(selected) >= 2 THEN check_selection(selected)
            ELSE IF Len(selected) = 1 THEN reroll
            ELSE seed
       ELSE check_selection(Append(selected, coords))

\* Mutant of select_tile: a select on a selected tile takes it out of the
\* selection.
select_tile_toggles ==
    /\ main_level
    /\ IF coords \in Range(selected)
       THEN play_sound("deselect.wav")
            /\ selected' = SelectSeq(selected, LAMBDA c : c # coords)
            /\ UNCHANGED <<numbers, x, y, board_depth, board_size, exception,
                           level, scheduled>>
       ELSE IF empty_tile
       THEN IF Len(selected) >= 2 THEN win(selected)
            ELSE IF Len(selected) = 1 THEN reroll
            ELSE seed
       ELSE check_selection(Append(selected, coords))

\* select_tile
select_tile ==
    /\ main_level
    /\ IF coords \in Range(selected)
       THEN play_sound("fail.wav")
            /\ UNCHANGED <<numbers, selected, x, y, board_depth, board_size,
                           exception,
                           level,
                           scheduled>>
       ELSE IF empty_tile
       THEN IF Len(selected) >= 2 THEN win(selected)
            ELSE IF Len(selected) = 1 THEN reroll
            ELSE seed
       ELSE check_selection(Append(selected, coords))

\* Mutant of deselect_tiles: the test is inverted.
deselect_tiles_inverted ==
    /\ main_level
    /\ IF selected # <<>>
       THEN play_sound("fail.wav") /\ UNCHANGED selected
       ELSE selected' = <<>> /\ play_sound("deselect.wav")
    /\ UNCHANGED <<numbers, x, y, board_depth, board_size, exception, level,
                   scheduled>>

\* deselect_tiles
deselect_tiles ==
    /\ main_level
    /\ IF selected = <<>>
       THEN play_sound("fail.wav") /\ UNCHANGED selected
       ELSE selected' = <<>> /\ play_sound("deselect.wav")
    /\ UNCHANGED <<numbers, x, y, board_depth, board_size, exception,
                   level, scheduled>>

\* Mutant of show_depth: a stack of max_number values is already refused.
show_depth_ge ==
    /\ main_level
    /\ LET l == Len(numbers[coords]) IN
       IF l = 0 \/ l >= max_number
       THEN play_sound("fail.wav")
       ELSE speak(wav(l))
    /\ UNCHANGED <<numbers, selected, x, y, board_depth, board_size,
                   exception, level, scheduled>>

\* show_depth
show_depth ==
    /\ main_level
    /\ LET l == Len(numbers[coords]) IN
       IF l = 0 \/ l > max_number
       THEN play_sound("fail.wav")
       ELSE speak(wav(l))
    /\ UNCHANGED <<numbers, selected, x, y, board_depth, board_size, exception,
                   level, scheduled>>

----------------------------------------------------------------------------
(* Specifications *)

\* What Board's class attributes, Game.__init__ and Game.before_run leave,
\* but for board_depth.
InitBoard ==
    /\ exception = "none"
    /\ numbers = [c \in {} |-> <<>>]
    /\ selected = <<>>
    /\ x = 0
    /\ y = 0
    /\ level = "intro"
    /\ scheduled = 0
    /\ sound = voice("intro.wav")

\* The state after construction and before_run: board_depth is max_number.
Init == InitBoard /\ board_depth = max_number /\ board_size = PlaySize

\* The same with the shallower stacks of the gameplay specification.
InitPlay == InitBoard /\ board_depth = PlayDepth /\ board_size = PlaySize

Next ==
    \/ skip_intro
    \/ left
    \/ right
    \/ forward
    \/ backwards
    \/ on_mouse_motion
    \/ select_tile
    \/ deselect_tiles
    \/ show_depth
    \/ goto_intro
    \/ skip_win

\* Gameplay on a board of PlayDepth-deep stacks.
Spec == InitPlay /\ [][Next]_vars

\* Construction and the first populate, with board_depth = max_number.
NextPopulate == skip_intro

SpecPopulate == Init /\ [][NextPopulate]_vars

\* Bound on the configurations SpecConfig starts from: board_size is any
\* integer from -MaxInvalid up to PlaySize.
MaxInvalid == 1

\* The values game.board_size is configured with.
ConfigSizes == (0 - MaxInvalid) .. PlaySize

\* Construction with any of these grid sides: Game.__init__ stores
\* board_size as it is.
InitConfig ==
    InitBoard /\ board_depth = PlayDepth /\ board_size \in ConfigSizes

\* The game under every configuration of ConfigSizes.
SpecConfig == InitConfig /\ [][Next]_vars

\* Bound on the depth of the stacks SpecDepth starts from.
MaxDepth == 4

\* The stacks of 0 to MaxDepth equal draws.
DepthStacks == {[i \in 1 .. n |-> v] : n \in 0 .. MaxDepth, v \in randint}

\* The boards SpecDepth starts from: the stack at the origin has grown (by
\* loses) or shrunk (by wins) to any depth up to MaxDepth, every other stack
\* holds one value or none, and the board is not cleared.
DepthBoards ==
    {b \in [Coords -> DepthStacks] :
        /\ \A c \in Coords \ {<<0, 0>>} : Len(b[c]) <= 1
        /\ any_numbers(b)}

\* A game in progress on one of these boards: the main level is current, the
\* cursor has been moved to the origin and nothing is selected.
InitDepth ==
    /\ exception = "none"
    /\ board_depth = PlayDepth
    /\ board_size = PlaySize
    /\ numbers \in DepthBoards
    /\ selected = <<>>
    /\ x = 0
    /\ y = 0
    /\ level = "main"
    /\ scheduled = 0
    /\ sound = selection_sound(numbers, selected, <<x, y>>)

\* The game continued from boards with stacks of every depth up to MaxDepth.
SpecDepth == InitDepth /\ [][Next]_vars

----------------------------------------------------------------------------
(* Vocabulary of the properties: the cases of select_tile, read off the    *)
(* state before the step, and the effects of its resolutions, read off the *)
(* two states of the step.                                                  *)

\* The sum of the top values of the cells of sel, added from the last entry.
RECURSIVE TopSum(_, _)
TopSum(nums, sel) ==
    IF Len(sel) = 0 THEN 0
    ELSE TopSum(nums, SubSeq(sel, 1, Len(sel) - 1)) + Top(nums[sel[Len(sel)]])

NoDuplicates(sel) == \A i, j \in DOMAIN sel : sel[i] = sel[j] => i = j

AllEmpty(nums) == \A c \in DOMAIN nums : nums[c] = <<>>

\* The cursor is on a non-empty cell that is not selected.
NormalCase == level = "main" /\ coords \notin Range(selected) /\ ~empty_tile

\* The cursor is on an empty cell and Len(selected) is one of Sizes.
EmptyCase(Sizes) ==
    /\ level = "main"
    /\ coords \notin Range(selected)
    /\ empty_tile
    /\ Len(selected) \in Sizes

\* A select on a non-empty cell that is not selected yet.
NormalSelect == NormalCase /\ select_tile

\* A select on an empty cell with as many cells selected as Sizes allows.
EmptySelect(Sizes) == EmptyCase(Sizes) /\ select_tile

\* The selection a normal select evaluates.
WithCursor == Append(selected, coords)

\* Every stack of cells is one shorter (its top removed), every other stack
\* is as it was.
PoppedOnce(cells) ==
    /\ DOMAIN numbers' = DOMAIN numbers
    /\ \A c \in DOMAIN numbers :
          IF c \in cells
          THEN /\ Len(numbers'[c]) = Len(numbers[c]) - 1
               /\ numbers'[c] = SubSeq(numbers[c], 1, Len(numbers[c]) - 1)
          ELSE numbers'[c] = numbers[c]

\* Every stack of cells is one longer, with a new top in [1, max_number] over
\* its old elements; every other stack is as it was.
PushedOnce(cells) ==
    /\ DOMAIN numbers' = DOMAIN numbers
    /\ \A c \in DOMAIN numbers :
          IF c \in cells
          THEN /\ Len(numbers'[c]) = Len(numbers[c]) + 1
               /\ numbers'[c][Len(numbers'[c])] \in 1 .. max_number
               /\ SubSeq(numbers'[c], 1, Len(numbers[c])) = numbers[c]
          ELSE numbers'[c] = numbers[c]

CursorKept == x' = x /\ y' = y

----------------------------------------------------------------------------
(* Properties *)

\* C1: in every reachable state the cursor (x, y) is inside the grid:
\* 0 <= x < board_size and 0 <= y < board_size.
C1_CursorInBounds ==
    /\ x \in 0 .. board_size - 1
    /\ y \in 0 .. board_size - 1

\* C1 witness: the cursor is in the far corner and a further move has just
\* been blocked by the wall.
C1_Witness ==
    /\ level = "main"
    /\ x = board_size - 1
    /\ y = board_size - 1
    /\ sound = "wall.wav"

\* The three outcomes of a normal select, as effects of the step.
C2_WinOutcome ==
    /\ selected' = <<>>
    /\ PoppedOnce(Range(WithCursor))
    /\ sound' \in {"win.wav", "won.wav"}

C2_LoseOutcome ==
    /\ selected' = <<>>
    /\ PushedOnce(Range(WithCursor))
    /\ sound' = "lose.wav"

C2_ContinueOutcome ==
    /\ selected' = WithCursor
    /\ numbers' = numbers
    /\ sound' = "select.wav"

\* C2: a select on a non-empty, not yet selected cell appends the cell and
\* evaluates the sum S of the selected tops; it resolves as a win exactly when
\* S = max_number, as a lose exactly when S > max_number, and otherwise keeps
\* the extended selection with every stack unchanged.
C2_ExactlyOneOutcome ==
    [][NormalSelect =>
         LET S == TopSum(numbers, WithCursor) IN
         /\ (S = max_number) <=> C2_WinOutcome
         /\ (S > max_number) <=> C2_LoseOutcome
         /\ (S < max_number) <=> C2_ContinueOutcome]_vars

\* C2 witness: a selection has just been resolved as a lose on a board on
\* which an earlier selection was resolved as a win (a stack is empty).
C2_Witness ==
    /\ level = "main"
    /\ sound = "lose.wav"
    /\ \E c \in DOMAIN numbers : numbers[c] = <<>>

\* C3: selected never holds a coordinate twice, and a coordinate enters
\* selected only by a select with the cursor on it while its stack is
\* non-empty (so none of the empty-cell branches adds one).
C3_SelectedDistinctNonEmpty ==
    [][/\ NoDuplicates(selected)
       /\ NoDuplicates(selected')
       /\ \A c \in Range(selected') \ Range(selected) :
             /\ select_tile
             /\ c = coords
             /\ numbers[c] # <<>>
             /\ selected' = Append(selected, c)]_vars

\* C3 witness: two cells are selected, the second just added.
C3_Witness ==
    /\ Len(selected) = 2
    /\ selected[2] = coords
    /\ sound = "select.wav"

\* The two triggers of a win resolution.
C4_WinCase ==
    \/ NormalCase /\ TopSum(numbers, WithCursor) = max_number /\ select_tile
    \/ EmptySelect(2 .. Cardinality(Coords))

\* C4: a win resolution, by the sum reaching max_number or by a select on an
\* empty cell with two or more cells selected, pops every selected cell
\* exactly once, leaves every other stack unchanged, empties selected and
\* keeps the cursor.
C4_WinShrinks ==
    [][C4_WinCase =>
         /\ PoppedOnce(Range(IF empty_tile THEN selected ELSE WithCursor))
         /\ selected' = <<>>
         /\ CursorKept]_vars

\* C4 witness: a win has just been resolved and play continues.
C4_Witness ==
    /\ level = "main"
    /\ sound = "win.wav"
    /\ selected = <<>>

\* The trigger of a lose resolution.
C5_LoseCase ==
    NormalCase /\ TopSum(numbers, WithCursor) > max_number /\ select_tile

\* C5: a lose resolution pushes one value of [1, max_number] onto every
\* selected cell, keeps the elements below, leaves every other stack
\* unchanged, empties selected, keeps the cursor and stays in the main level
\* (the board is not repopulated).
C5_LoseGrows ==
    [][C5_LoseCase =>
         /\ PushedOnce(Range(WithCursor))
         /\ selected' = <<>>
         /\ CursorKept
         /\ level' = "main"]_vars

\* C5 witness: a lose has just been resolved and left a stack deeper than
\* the populated depth.
C5_Witness ==
    /\ level = "main"
    /\ sound = "lose.wav"
    /\ \E c \in DOMAIN numbers : Len(numbers[c]) > board_depth

\* C6: the main level is left for the win level exactly by a win resolution
\* that leaves every stack empty; every other step of the main level, and a
\* win resolution that leaves a non-empty stack, stays in the main level.
C6_GameWonIffCleared ==
    [][level = "main" =>
         /\ (level' = "win") <=> (AllEmpty(numbers') /\ C4_WinCase)
         /\ level' \in {"main", "win"}]_vars

\* C6 witness: the last win resolution cleared the board.
C6_Witness ==
    /\ level = "win"
    /\ sound = "won.wav"
    /\ AllEmpty(numbers)

\* C7: every populate leaves the cursor at (0, 0) and selected empty.
C7_PopulateResets ==
    [][skip_intro => (x' = 0 /\ y' = 0 /\ selected' = <<>>)]_vars

\* C8: immediately after populate (the step that enters the main level) every
\* coordinate of the grid has a stack of exactly max_number elements, each in
\* [1, max_number], and the board has no other entry.
C8_PopulateFull ==
    [][(level = "intro" /\ level' = "main") =>
         /\ DOMAIN numbers' = Coords
         /\ \A c \in Coords :
               /\ Len(numbers'[c]) = max_number
               /\ \A i \in 1 .. max_number : numbers'[c][i] \in 1 .. max_number]_vars

\* C8 witness: a populated board with a stack of max_number distinct values
\* and a stack of max_number equal values.
C8_Witness ==
    /\ level = "main"
    /\ numbers[<<0, 0>>] = <<1, 2, 3>>
    /\ numbers[<<1, 1>>] = <<3, 3, 3>>

\* C9: a select on an empty cell with exactly one cell selected empties
\* selected and overwrites the top of that cell with a value of
\* [1, max_number]; no stack changes length, the elements below that top and
\* every other stack are unchanged, and the cursor is kept.
C9_Reroll ==
    [][EmptySelect({1}) =>
         /\ selected' = <<>>
         /\ DOMAIN numbers' = DOMAIN numbers
         /\ \A c \in DOMAIN numbers :
               /\ Len(numbers'[c]) = Len(numbers[c])
               /\ c # selected[1] => numbers'[c] = numbers[c]
         /\ LET old == numbers[selected[1]]
                new == numbers'[selected[1]]
            IN /\ new[Len(new)] \in 1 .. max_number
               /\ SubSeq(new, 1, Len(new) - 1) = SubSeq(old, 1, Len(old) - 1)
         /\ numbers'[coords] = <<>>
         /\ CursorKept]_vars

\* C9 witness: a reroll has just been made.
C9_Witness ==
    /\ level = "main"
    /\ sound = "randomise.wav"
    /\ selected = <<>>
    /\ empty_tile

\* C10: a select on an empty cell with nothing selected pushes exactly one
\* value of [1, max_number] onto that cell, leaves selected empty and every
\* other stack and the cursor unchanged; the cell is then non-empty and not
\* selected, and a select on a non-empty cell with nothing selected is a
\* normal selection: the cell becomes the selection and its top is evaluated
\* (a win when it is max_number, else the selection continues).
C10_Seed ==
    /\ [][EmptySelect({0}) =>
         /\ PushedOnce({coords})
         /\ Len(numbers'[coords]) = 1
         /\ selected' = <<>>
         /\ CursorKept
         /\ level' = "main"
         /\ numbers'[<<x', y'>>] # <<>>
         /\ <<x', y'>> \notin Range(selected')]_vars
    /\ [][(NormalCase /\ selected = <<>> /\ select_tile) =>
            IF Top(numbers[coords]) = max_number
            THEN selected' = <<>> /\ PoppedOnce({coords})
            ELSE selected' = <<coords>> /\ numbers' = numbers]_vars

\* C10 witness: the cursor has been moved onto an empty cell with nothing
\* selected and room on the board for the seed.
C10_Witness ==
    /\ level = "main"
    /\ sound = voice("wild.wav")
    /\ selected = <<>>
    /\ empty_tile
    /\ Total(numbers) < MaxTotal

----------------------------------------------------------------------------
\* C11: a select on an empty cell with two or more cells selected wins with
\* the cells already selected, whatever their sum: the top of every selected
\* cell is removed once, nothing else on the board changes, selected is
\* emptied, and the cursor's cell is not selected and stays empty; the
\* cursor does not move.
C11_ImplicitWin ==
    [][EmptySelect(2 .. Cardinality(Coords)) =>
          /\ PoppedOnce(Range(selected))
          /\ selected' = <<>>
          /\ numbers'[coords] = <<>>
          /\ sound' \in {"win.wav", "won.wav"}
          /\ CursorKept]_vars

\* C11 witness: two cells are selected, their tops short of max_number, and
\* the cursor has been moved onto an empty cell that is not selected: the
\* state a select makes the implicit win from.
C11_Witness ==
    /\ level = "main"
    /\ sound = voice("wild.wav")
    /\ Len(selected) >= 2
    /\ TopSum(numbers, selected) < max_number
    /\ coords \notin Range(selected)
    /\ empty_tile

----------------------------------------------------------------------------
\* The outcome of a move whose candidate coordinate is cand: blocked (the
\* wall sound, the cursor where it was) when cand is off the grid, and the
\* cursor on cand, announced, when it is on the grid.
MovedTo(cand) ==
    IF cand \in Coords
    THEN /\ <<x', y'>> = cand
         /\ sound' = selection_sound(numbers, selected, cand)
    ELSE /\ CursorKept
         /\ sound' = "wall.wav"

\* The cursor is one unit away on exactly one axis.
OneUnit ==
    \/ x' = x /\ (y' = y + 1 \/ y' = y - 1)
    \/ y' = y /\ (x' = x + 1 \/ x' = x - 1)

\* C12: a move (left, right, forward, backwards, or the mouse making one of
\* them) whose candidate coordinate is off the grid is blocked: the cursor,
\* every stack and selected are unchanged; a move whose candidate is on the
\* grid puts the cursor on the candidate, one unit away on exactly one axis,
\* and leaves every stack and selected unchanged.
C12_MoveOrBlocked ==
    [][/\ left => MovedTo(<<x - 1, y>>)
       /\ right => MovedTo(<<x + 1, y>>)
       /\ forward => MovedTo(<<x, y + 1>>)
       /\ backwards => MovedTo(<<x, y - 1>>)
       /\ (left \/ right \/ forward \/ backwards \/ on_mouse_motion) =>
             /\ numbers' = numbers
             /\ selected' = selected
             /\ CursorKept \/ (OneUnit /\ <<x', y'>> \in Coords)
             /\ CursorKept =>
                   \/ UNCHANGED vars
                   \/ /\ sound' = "wall.wav"
                      /\ x \in {0, board_size - 1} \/ y \in {0, board_size - 1}
      ]_vars

\* C12 witness: a move against the wall at the origin has been blocked.
C12_Witness ==
    /\ level = "main"
    /\ sound = "wall.wav"
    /\ x = 0
    /\ y = 0

----------------------------------------------------------------------------
\* Everything but the sound is as it was.
OnlySoundChanges ==
    UNCHANGED <<numbers, selected, x, y, board_depth, board_size, exception,
                level, scheduled>>

\* C14: deselect_tiles with nothing selected only gives the fail signal and
\* changes nothing else; with something selected it empties selected, gives
\* the deselect signal and leaves every stack and the cursor unchanged.
C14_Deselect ==
    [][deselect_tiles =>
          IF selected = <<>>
          THEN sound' = "fail.wav" /\ OnlySoundChanges
          ELSE /\ selected' = <<>>
               /\ sound' = "deselect.wav"
               /\ numbers' = numbers
               /\ CursorKept
               /\ level' = level]_vars

\* C14 witness: a selection has been dropped by deselect_tiles.
C14_Witness ==
    /\ level = "main"
    /\ sound = "deselect.wav"
    /\ selected = <<>>
    /\ \E c \in DOMAIN numbers : numbers[c] # <<>>

----------------------------------------------------------------------------
\* C15: a select while the cursor's coordinate is in selected only gives the
\* fail signal: selected (contents and order), every stack, the cursor and
\* the level are unchanged, so neither a win, a lose nor an empty-cell branch
\* has been taken.
C15_AlreadySelected ==
    [][(level = "main" /\ coords \in Range(selected) /\ select_tile) =>
          sound' = "fail.wav" /\ OnlySoundChanges]_vars

\* C15 witness: a select on a selected cell has been rejected.
C15_Witness ==
    /\ level = "main"
    /\ sound = "fail.wav"
    /\ coords \in Range(selected)

----------------------------------------------------------------------------
\* C18: in every state, every coordinate in selected has a stack, and the
\* stack is not empty.
C18_SelectedNonEmpty ==
    \A i \in DOMAIN selected :
        /\ selected[i] \in DOMAIN numbers
        /\ numbers[selected[i]] # <<>>

\* C18 witness: cells are selected after a win has emptied another cell.
C18_Witness ==
    /\ level = "main"
    /\ selected # <<>>
    /\ \E c \in DOMAIN numbers : numbers[c] = <<>>

----------------------------------------------------------------------------
\* C19: in every state (between two input events), the tops of the selected
\* cells sum to less than max_number, so at most max_number - 1 cells are
\* selected.
C19_SelectionBelowTarget ==
    /\ TopSum(numbers, selected) < max_number
    /\ Len(selected) <= max_number - 1

\* C19 witness: max_number - 1 cells are selected, one short of the target.
C19_Witness ==
    /\ level = "main"
    /\ Len(selected) = max_number - 1
    /\ TopSum(numbers, selected) = max_number - 1

----------------------------------------------------------------------------
\* A board operation of the main level.
BoardOperation ==
    \/ left
    \/ right
    \/ forward
    \/ backwards
    \/ on_mouse_motion
    \/ select_tile
    \/ deselect_tiles
    \/ show_depth

\* Every coordinate of the grid has a stack, the cursor is on the grid and
\* so is every selected coordinate.
GridComplete ==
    /\ DOMAIN numbers = Coords
    /\ coords \in Coords
    /\ Range(selected) \subseteq Coords

\* C17: board operations (moves, select, deselect, depth query) are taken
\* only while the main level is current, and outside it the board does not
\* change; the main level is entered only from the intro level, by a step
\* that gives every coordinate a stack of board_depth values; the main level
\* is never current with a cleared board, since the clearing win leaves it
\* for the win level; the win level is left only for the intro level, and
\* the timer that leaves it populates nothing; and while the main level is
\* current every coordinate a board operation reads has a stack.
C17_MainLevelOnly ==
    /\ [](level = "main" => GridComplete /\ ~AllEmpty(numbers))
    /\ [][/\ level # "main" =>
                /\ UNCHANGED <<selected, x, y>>
                /\ level' # "main" => numbers' = numbers
          /\ (level # "main" /\ level' = "main") =>
                /\ level = "intro"
                /\ DOMAIN numbers' = Coords
                /\ \A c \in Coords : Len(numbers'[c]) = board_depth
          /\ (level = "main" /\ AllEmpty(numbers')) => level' = "win"
          /\ (level = "win" /\ level' # "win") =>
                level' = "intro" /\ numbers' = numbers
          /\ BoardOperation => level = "main" /\ level' \in {"main", "win"}
         ]_vars

\* C17 witness: the board has been cleared away from the origin and the
\* program is back in the intro level, the board still cleared, waiting for
\* the player to start the next game.
C17_Witness ==
    /\ level = "intro"
    /\ DOMAIN numbers = Coords
    /\ AllEmpty(numbers)
    /\ <<x, y>> # <<0, 0>>

----------------------------------------------------------------------------
\* C20: a goto_intro is pending exactly while the win level is current (the
\* win level schedules one when it is pushed, skip_win unschedules it, and
\* the callback uses it up), so none is left over for the intro or the main
\* level of a later game; the win level is left only for the intro level,
\* with no callback pending after the step, whether the step is the callback
\* or the skip; and a callback leaves a level other than the win level as it
\* is.
C20_WinLeftOnce ==
    /\ [](scheduled = IF level = "win" THEN 1 ELSE 0)
    /\ [][/\ (level # "win" /\ level' = "win") => scheduled' = 1
          /\ (level = "win" /\ level' # "win") =>
                /\ level' = "intro"
                /\ scheduled' = 0
                /\ sound' = voice("intro.wav")
          /\ (goto_intro /\ level # "win") => level' = level
          /\ (goto_intro \/ skip_win) => level = "win" /\ level' = "intro"
         ]_vars

\* C20 witness: the win level has been replaced by the intro level, with no
\* callback pending.
C20_Witness ==
    /\ level = "intro"
    /\ sound = voice("intro.wav")
    /\ scheduled = 0
    /\ numbers # <<>>
    /\ AllEmpty(numbers)

----------------------------------------------------------------------------
----------------------------------------------------------------------------
\* The depth of the cursor's stack.
Depth == Len(numbers[coords])

====
